---- MODULE Spec2Model ----
(***************************************************************************)
(* Model of src/libs/libjpeg_turbo/lv_libjpeg_turbo.c: the JPEG decoder    *)
(* facade (decoder_open / decoder_close), its cache lookup (try_cache),    *)
(* the decode adapter (decode_jpeg_file, with its setjmp recovery point)   *)
(* and the size arithmetic of the decoded buffer.                          *)
(*                                                                         *)
(* The image cache (lv_cache), the file system (lv_fs), the allocator      *)
(* and libjpeg itself are collaborators whose code is not in this file.    *)
(* The cache is modelled from its specified contract; the file system,     *)
(* the allocator and the engine are modelled as nondeterministic: every    *)
(* call that can fail may fail.                                            *)
(***************************************************************************)
EXTENDS Integers, FiniteSets, Sequences, TLC

(***************************************************************************)
(* Bounds of the model                                                     *)
(***************************************************************************)
\* total number of decoder_open calls explored in one behaviour
MaxOpens == 3

Threads == {1, 2}
Paths == {"a.jpg", "b.jpg"}

\* image sources handed to the decoder: two files and one in-memory image
FileSrc(p) == [type |-> "FILE", id |-> p]
VarSrc == [type |-> "VARIABLE", id |-> "ptr"]
Sources == {FileSrc(p) : p \in Paths} \cup {VarSrc}

\* dimensions stored in the files (what jpeg_read_header reports)
ImageWidth(p) == IF p = "a.jpg" THEN 1 ELSE 2
ImageHeight(p) == IF p = "a.jpg" THEN 2 ELSE 1

(***************************************************************************)
(* Program constants                                                       *)
(***************************************************************************)
JPEG_PIXEL_SIZE == 3

(***************************************************************************)
(* Pointers.  Every allocation has its own identity <<kind, thread, call>>;*)
(* NULL has the same shape.                                                *)
(***************************************************************************)
NULL == <<"null", 0, 0>>
DataBuf(t, n) == <<"data", t, n>>     \* raw file bytes (alloc_file)
File(t, n) == <<"file", t, n>>        \* open lv_fs_file_t f of decoder_info
LoadFile(t, n) == <<"load", t, n>>    \* open lv_fs_file_t f of alloc_file
OutBuf(t, n) == <<"out", t, n>>       \* decoded pixels (lv_draw_buf_malloc)
SrcStr(t, n) == <<"str", t, n>>       \* lv_strdup copy of the path
Entry(t, n) == <<"entry", t, n>>      \* lv_cache_entry_t made by lv_cache_add

\* the caller's own object behind dsc->src in call n of thread t: its path
\* string, or its in-memory image
CallerSrc(s, t, n) == <<IF s.type = "FILE" THEN "path" ELSE "image", t, n>>

\* The decode time measured by call n of thread t (lines 163-165).  The code
\* only stores it, so it is kept as a token, like a pointer; NoWeight is the
\* weight of an entry that has not been given one.
Elapsed(t, n) == <<"elapsed", t, n>>
NoWeight == <<"none", 0, 0>>

NoOwner == 0

(***************************************************************************)
(* 32-bit unsigned arithmetic.  A value is a pair <<hi, lo>> of 16-bit     *)
(* halves (hi * 65536 + lo); the exact product keeps an unreduced hi.      *)
(***************************************************************************)
Half == 65536

\* exact a * b for a, b < 2^16, as <<hi, lo>> with hi < 2^16
Mul16(a, b) ==
    LET a1 == a \div 256
        a0 == a % 256
        b1 == b \div 256
        b0 == b % 256
        mid == a1 * b0 + a0 * b1
        low == (mid % 256) * 256 + a0 * b0
    IN  <<a1 * b1 + (mid \div 256) + (low \div Half), low % Half>>

\* exact x * k for a pair x and a small k: hi is left unreduced
MulSmall(x, k) ==
    LET low == x[2] * k
    IN  <<x[1] * k + (low \div Half), low % Half>>

\* reduction modulo 2^32 (what unsigned int arithmetic keeps)
WrapU32(x) == <<x[1] % Half, x[2]>>

\* width * height * 3 over the integers
ExactProduct(w, h) == MulSmall(Mul16(w, h), JPEG_PIXEL_SIZE)

\* cinfo.output_width * cinfo.output_height * JPEG_PIXEL_SIZE, computed in
\* unsigned int (JDIMENSION) and then widened to size_t
OutputBufferSize(w, h) == WrapU32(MulSmall(WrapU32(Mul16(w, h)), JPEG_PIXEL_SIZE))

ZeroSize == <<0, 0>>

VARIABLES
    pc,      \* pc[t]: position of thread t in decoder_open / decoder_close
    lock,    \* owner of the cache lock (lv_cache_lock), NoOwner when free
    cache,   \* the cache index: entry pointer -> lv_cache_entry_t fields
    heap,    \* the live allocations (and the pointers freed twice)
    calls,   \* calls[t]: number of decoder_open calls thread t has made
    dsc,     \* dsc[t]: the lv_image_decoder_dsc_t of thread t
    loc,     \* loc[t]: locals of decoder_open and decode_jpeg_file
    res,     \* res[t]: result of the last decoder_open of thread t
    hist,    \* hist[t]: what the current/last decoder_open of thread t did
             \*   decode:  "none" until decode_jpeg_file has been called and
             \*            has returned, then "ok" or "fail"
             \*   jump:    the engine call that raised an error, if any
             \*   add:     the outcome of lv_cache_add
             \*   prior:   the entries of its path whose insert had completed
             \*            when the call began (kept until the lookup)
             \*   visible: the entries of its path in the cache at the lookup
    sz       \* the size probe: one image pushed through info and open

vars == <<pc, lock, cache, heap, calls, dsc, loc, res, hist, sz>>


(***************************************************************************)
(* Records                                                                 *)
(***************************************************************************)
NoSrc == [type |-> "NONE", id |-> ""]

\* a descriptor as the host hands it to decoder_open
NewDsc(s) == [src |-> s, img_data |-> NULL, cache_entry |-> NULL]

\* locals of decoder_open (decoded_img, decoded_size, cache) and of
\* decode_jpeg_file (data, output_buffer, cinfo, cinfo.output_scanline)
NoLoc == [decoded_img |-> NULL, decoded_size |-> ZeroSize, cache |-> NULL,
          data |-> NULL, output_buffer |-> NULL, output_scanline |-> 0,
          cinfo |-> "none", rn |-> 0, jpg_signature |-> <<0, 0>>,
          header |-> <<0, 0>>]

\* what one decoder_open call did (observation only, never read by the code)
NoHist == [decode |-> "none", jump |-> "none",
           add |-> "none", prior |-> {}, visible |-> {}]

(***************************************************************************)
(* The allocator.  heap holds the live allocations ("live"); an allocation *)
(* leaves it when freed.  No identity is ever handed out twice, so a       *)
(* pointer that is neither NULL nor live has been freed already: freeing   *)
(* it again is recorded as "double_free".                                  *)
(***************************************************************************)
Alloc(h, p) == h @@ (p :> "live")

\* lv_free / lv_draw_buf_free: freeing NULL does nothing
Free(h, p) ==
    IF p = NULL THEN h
    ELSE IF p \in DOMAIN h /\ h[p] = "live"
         THEN [x \in DOMAIN h \ {p} |-> h[x]]
         ELSE h @@ (p :> "double_free")

(***************************************************************************)
(* The image cache, from its contract.                                     *)
(***************************************************************************)
\* lv_cache_add(data, data_size, data_type, memory_usage): a new entry that
\* owns data; its source, weight and callback are still unset
CacheAdd(c, e, data, size) ==
    c @@ (e :> [data |-> data, data_size |-> size, src |-> NULL,
                src_text |-> "", src_type |-> "NONE", weight |-> NoWeight,
                invalidate_cb |-> "none", refCount |-> 0])

\* lv_cache_find_by_src(NULL, fn, LV_CACHE_SRC_TYPE_PATH): the entries whose
\* identity is a path equal (as a string) to fn
CacheFindBySrc(c, fn) ==
    {e \in DOMAIN c : c[e].src_type = "PATH" /\ c[e].src_text = fn}

\* lv_cache_get_data(entry): counts one more holder; the data is c[e].data
CacheGetData(c, e) == [c EXCEPT ![e].refCount = @ + 1]

\* lv_cache_release(entry): one holder less
CacheRelease(c, e) == [c EXCEPT ![e].refCount = @ - 1]

CacheRemove(c, e) == [x \in DOMAIN c \ {e} |-> c[x]]

\* cache_invalidate_cb freeing entry->src whatever the entry's src_type
cache_invalidate_cb_AnySrc(h, entry) == Free(Free(h, entry.src), entry.data)

\* cache_invalidate_cb(entry), lines 482-486: frees the source of a PATH
\* entry, and the data
cache_invalidate_cb(h, entry) ==
    LET h1 == IF entry.src_type = "PATH" THEN Free(h, entry.src) ELSE h
    IN  Free(h1, entry.data)

RECURSIVE SumCalls(_, _)
SumCalls(f, S) ==
    IF S = {} THEN 0
    ELSE LET x == CHOOSE y \in S : TRUE IN f[x] + SumCalls(f, S \ {x})

TotalCalls == SumCalls(calls, Threads)

\* the entry a thread is still filling in under the lock (lines 168-189)
Publishing(t) ==
    IF pc[t] \in {"set_fields", "get_data", "open_unlock"} THEN {loc[t].cache} ELSE {}

\* entries whose insert section has completed
Published == DOMAIN cache \ UNION {Publishing(t) : t \in Threads}

(***************************************************************************)
(* Initial state: no thread is in a call, the cache is empty.              *)
(***************************************************************************)
SzOff == [pc |-> "off", w |-> 1, h |-> 1, header |-> <<0, 0>>, size |-> ZeroSize,
          written |-> ZeroSize,
          order |-> "none", bytes |-> <<0, 0, 0, 0>>, is_jpeg |-> FALSE]

InitThreads ==
    /\ pc = [t \in Threads |-> "idle"]
    /\ lock = NoOwner
    /\ cache = << >>
    /\ heap = << >>
    /\ calls = [t \in Threads |-> 0]
    /\ dsc = [t \in Threads |-> NewDsc(NoSrc)]
    /\ loc = [t \in Threads |-> NoLoc]
    /\ res = [t \in Threads |-> "NONE"]
    /\ hist = [t \in Threads |-> NoHist]

Init == InitThreads /\ sz = SzOff


(***************************************************************************)
(* decoder_open, lines 150-194, and try_cache, lines 207-224               *)
(***************************************************************************)
\* the host calls decoder_open(decoder, dsc, args) with a fresh descriptor
Open(t, s) ==
    /\ pc[t] = "idle"
    /\ TotalCalls < MaxOpens
    /\ calls' = [calls EXCEPT ![t] = @ + 1]
    /\ dsc' = [dsc EXCEPT ![t] = NewDsc(s)]
    /\ loc' = [loc EXCEPT ![t] = NoLoc]
    /\ res' = [res EXCEPT ![t] = "NONE"]
    /\ hist' = [hist EXCEPT ![t] =
                  [NoHist EXCEPT !.prior =
                      IF s.type = "FILE"
                      THEN CacheFindBySrc(cache, s.id) \cap Published
                      ELSE {}]]
    /\ pc' = [pc EXCEPT ![t] = "try_lock"]
    /\ UNCHANGED <<lock, cache, heap, sz>>

\* try_cache: lv_cache_lock(), line 209
TryCacheLock(t) ==
    /\ pc[t] = "try_lock"
    /\ lock = NoOwner
    /\ lock' = t
    /\ pc' = [pc EXCEPT ![t] = "try_find"]
    /\ UNCHANGED <<cache, heap, calls, dsc, loc, res, hist, sz>>

\* try_cache: lines 210-216, the lookup and, on a hit, taking the data
TryCacheFind(t) ==
    /\ pc[t] = "try_find"
    /\ LET fn == dsc[t].src.id
           found == IF dsc[t].src.type = "FILE"
                    THEN CacheFindBySrc(cache, fn) ELSE {}
           seen == [hist[t] EXCEPT
                      !.visible = found,
                      !.prior = hist[t].prior \cap DOMAIN cache]
       IN  IF found # {}
           THEN \E e \in found :
                  /\ dsc' = [dsc EXCEPT ![t].img_data = cache[e].data,
                                        ![t].cache_entry = e]
                  /\ cache' = CacheGetData(cache, e)
                  /\ hist' = [hist EXCEPT ![t] = seen]
                  /\ pc' = [pc EXCEPT ![t] = "try_hit_unlock"]
           ELSE /\ hist' = [hist EXCEPT ![t] = seen]
                /\ pc' = [pc EXCEPT ![t] = "try_miss_unlock"]
                /\ UNCHANGED <<dsc, cache>>
    /\ UNCHANGED <<lock, heap, calls, loc, res, sz>>

\* try_cache returning on a hit without lv_cache_unlock()
TryCacheHitReturn_KeepLock(t) ==
    /\ pc[t] = "try_hit_unlock"
    /\ res' = [res EXCEPT ![t] = "OK"]
    /\ hist' = [hist EXCEPT ![t].visible = {}, ![t].prior = {}]
    /\ pc' = [pc EXCEPT ![t] = "opened"]
    /\ UNCHANGED <<lock, cache, heap, calls, dsc, loc, sz>>

\* try_cache: lines 217-218, then decoder_open line 157 returns LV_RESULT_OK
TryCacheHitReturn(t) ==
    /\ pc[t] = "try_hit_unlock"
    /\ lock' = NoOwner
    /\ res' = [res EXCEPT ![t] = "OK"]
    /\ hist' = [hist EXCEPT ![t].visible = {}, ![t].prior = {}]
    /\ pc' = [pc EXCEPT ![t] = "opened"]
    /\ UNCHANGED <<cache, heap, calls, dsc, loc, sz>>

\* try_cache returning on a miss without lv_cache_unlock()
TryCacheMissReturn_KeepLock(t) ==
    /\ pc[t] = "try_miss_unlock"
    /\ hist' = [hist EXCEPT ![t].visible = {}, ![t].prior = {}]
    /\ pc' = [pc EXCEPT ![t] = "open_miss"]
    /\ UNCHANGED <<lock, cache, heap, calls, dsc, loc, res, sz>>

\* try_cache: lines 222-223, the miss
TryCacheMissReturn(t) ==
    /\ pc[t] = "try_miss_unlock"
    /\ lock' = NoOwner
    /\ hist' = [hist EXCEPT ![t].visible = {}, ![t].prior = {}]
    /\ pc' = [pc EXCEPT ![t] = "open_miss"]
    /\ UNCHANGED <<cache, heap, calls, dsc, loc, res, sz>>

\* decoder_open going from the miss to the insert without decode_jpeg_file
OpenMiss_NoDecode(t) ==
    /\ pc[t] = "open_miss"
    /\ pc' = [pc EXCEPT ![t] = "add_lock"]
    /\ UNCHANGED <<lock, cache, heap, calls, dsc, loc, res, hist, sz>>

\* decoder_open decoding whatever the source type is
OpenMiss_AnySource(t) ==
    /\ pc[t] = "open_miss"
    /\ pc' = [pc EXCEPT ![t] = "alloc_file"]
    /\ UNCHANGED <<lock, cache, heap, calls, dsc, loc, res, hist, sz>>

\* decoder_open: line 160; a source that is no file fails at line 193 (the
\* host then drops the descriptor)
OpenMiss(t) ==
    /\ pc[t] = "open_miss"
    /\ IF dsc[t].src.type = "FILE"
       THEN /\ pc' = [pc EXCEPT ![t] = "alloc_file"]
            /\ UNCHANGED <<res, dsc>>
       ELSE /\ res' = [res EXCEPT ![t] = "INVALID"]
            /\ dsc' = [dsc EXCEPT ![t] = NewDsc(NoSrc)]
            /\ pc' = [pc EXCEPT ![t] = "idle"]
    /\ UNCHANGED <<lock, cache, heap, calls, loc, hist, sz>>

(***************************************************************************)
(* decode_jpeg_file, lines 281-430                                         *)
(***************************************************************************)
\* decode_jpeg_file returns img to decoder_open (line 164)
DecodeResult(t, img, c) ==
    /\ loc' = [loc EXCEPT ![t].decoded_img = img, ![t].data = NULL,
                          ![t].output_buffer = NULL, ![t].output_scanline = 0,
                          ![t].cinfo = c]
    /\ hist' = [hist EXCEPT ![t].decode = IF img = NULL THEN "fail" ELSE "ok"]
    /\ pc' = [pc EXCEPT ![t] = "add_lock"]

\* an engine call reports an error: error_exit (lines 475-480) jumps to the
\* setjmp of line 318
LongJmp(t, where) ==
    /\ hist' = [hist EXCEPT ![t].jump = where]
    /\ pc' = [pc EXCEPT ![t] = "jump"]

\* alloc_file (lines 226-279), called at line 306: the whole file in a fresh
\* buffer, or NULL (open, seek, tell, malloc or read failed)
AllocFile(t) ==
    /\ pc[t] = "alloc_file"
    /\ \E ok \in BOOLEAN :
         IF ok
         THEN /\ heap' = Alloc(heap, DataBuf(t, calls[t]))
              /\ loc' = [loc EXCEPT ![t].data = DataBuf(t, calls[t])]
              /\ pc' = [pc EXCEPT ![t] = "create"]
              /\ UNCHANGED hist
         ELSE /\ DecodeResult(t, NULL, loc[t].cinfo)
              /\ UNCHANGED heap
    /\ UNCHANGED <<lock, cache, calls, dsc, res, sz>>

\* jpeg_create_decompress, line 334
JpegCreate(t) ==
    /\ pc[t] = "create"
    /\ \E ok \in BOOLEAN :
         IF ok
         THEN /\ loc' = [loc EXCEPT ![t].cinfo = "created"]
              /\ pc' = [pc EXCEPT ![t] = "read_header"]
              /\ UNCHANGED hist
         ELSE LongJmp(t, "create") /\ UNCHANGED loc
    /\ UNCHANGED <<lock, cache, heap, calls, dsc, res, sz>>

\* jpeg_mem_src and jpeg_read_header, lines 338-342
JpegReadHeader(t) ==
    /\ pc[t] = "read_header"
    /\ \E ok \in BOOLEAN :
         IF ok
         THEN pc' = [pc EXCEPT ![t] = "start"] /\ UNCHANGED hist
         ELSE LongJmp(t, "header")
    /\ UNCHANGED <<lock, cache, heap, calls, dsc, loc, res, sz>>

\* jpeg_start_decompress and the row buffer of alloc_sarray, lines 352-376
JpegStart(t) ==
    /\ pc[t] = "start"
    /\ \E ok \in BOOLEAN :
         IF ok
         THEN pc' = [pc EXCEPT ![t] = "alloc_out"] /\ UNCHANGED hist
         ELSE LongJmp(t, "start")
    /\ UNCHANGED <<lock, cache, heap, calls, dsc, loc, res, sz>>

\* lines 378-383: the output buffer; its size goes to *size only when the
\* allocation succeeded
AllocOutput(t) ==
    /\ pc[t] = "alloc_out"
    /\ \E ok \in BOOLEAN :
         IF ok
         THEN /\ heap' = Alloc(heap, OutBuf(t, calls[t]))
              /\ loc' = [loc EXCEPT
                           ![t].output_buffer = OutBuf(t, calls[t]),
                           ![t].decoded_size =
                               OutputBufferSize(ImageWidth(dsc[t].src.id),
                                                ImageHeight(dsc[t].src.id))]
              /\ pc' = [pc EXCEPT ![t] = "scan"]
         ELSE /\ pc' = [pc EXCEPT ![t] = "finish"]
              /\ UNCHANGED <<heap, loc>>
    /\ UNCHANGED <<lock, cache, calls, dsc, res, hist, sz>>

\* lines 391-401: one turn of the scanline loop
ReadScanline(t) ==
    /\ pc[t] = "scan"
    /\ \E ok \in BOOLEAN :
         IF ok
         THEN /\ loc' = [loc EXCEPT ![t].output_scanline = @ + 1]
              /\ pc' = [pc EXCEPT ![t] =
                          IF loc[t].output_scanline + 1 < ImageHeight(dsc[t].src.id)
                          THEN "scan" ELSE "finish"]
              /\ UNCHANGED hist
         ELSE LongJmp(t, "scanline") /\ UNCHANGED loc
    /\ UNCHANGED <<lock, cache, heap, calls, dsc, res, sz>>

\* jpeg_finish_decompress, line 406: it either raises an error or lets the
\* function run on to its normal exit (DecodeReturn)
JpegFinishError(t) ==
    /\ pc[t] = "finish"
    /\ LongJmp(t, "finish")
    /\ UNCHANGED <<lock, cache, heap, calls, dsc, loc, res, sz>>

\* jpeg_destroy_decompress on a cinfo in state c
DestroyDecompress(c) ==
    IF c = "created" THEN "destroyed"
    ELSE IF c = "none" THEN "destroyed_uncreated" ELSE "destroyed_twice"

\* lines 406-429: jpeg_finish_decompress succeeds, then the normal exit
DecodeReturn(t) ==
    /\ pc[t] = "finish"
    /\ heap' = Free(heap, loc[t].data)
    /\ DecodeResult(t, loc[t].output_buffer, DestroyDecompress(loc[t].cinfo))
    /\ UNCHANGED <<lock, cache, calls, dsc, res, sz>>

\* the recovery branch handing back the buffer it found instead of NULL
ErrorRecovery_ReturnBuffer(t) ==
    /\ pc[t] = "jump"
    /\ heap' = Free(heap, loc[t].data)
    /\ DecodeResult(t, loc[t].output_buffer, DestroyDecompress(loc[t].cinfo))
    /\ UNCHANGED <<lock, cache, calls, dsc, res, sz>>

\* lines 318-332: the recovery branch.  output_buffer is a non-volatile
\* local assigned after setjmp, so after longjmp its value is indeterminate:
\* the branch reads either its value at setjmp time (NULL) or its last value
ErrorRecovery(t) ==
    /\ pc[t] = "jump"
    /\ \E seen \in {NULL, loc[t].output_buffer} :
         heap' = Free(Free(heap, seen), loc[t].data)
    /\ DecodeResult(t, NULL, DestroyDecompress(loc[t].cinfo))
    /\ UNCHANGED <<lock, cache, calls, dsc, res, sz>>


(***************************************************************************)
(* decoder_open, lines 167-190: the insert section                         *)
(***************************************************************************)
\* lv_cache_lock(), line 167; the frame of decode_jpeg_file (cinfo, and where
\* it jumped) is gone by now
AddLock(t) ==
    /\ pc[t] = "add_lock"
    /\ lock = NoOwner
    /\ lock' = t
    /\ loc' = [loc EXCEPT ![t].cinfo = "none"]
    /\ hist' = [hist EXCEPT ![t].jump = "none"]
    /\ pc' = [pc EXCEPT ![t] = "add"]
    /\ UNCHANGED <<cache, heap, calls, dsc, res, sz>>

\* lv_cache_add followed by lv_cache_unlock() also when it gave an entry
OpenCacheAdd_Unlock(t) ==
    /\ pc[t] = "add"
    /\ cache' = CacheAdd(cache, Entry(t, calls[t]),
                         loc[t].decoded_img, loc[t].decoded_size)
    /\ loc' = [loc EXCEPT ![t].cache = Entry(t, calls[t])]
    /\ hist' = [hist EXCEPT ![t].add = "ok"]
    /\ lock' = NoOwner
    /\ pc' = [pc EXCEPT ![t] = "set_fields"]
    /\ UNCHANGED <<heap, calls, dsc, res, sz>>

\* lines 168-173: lv_cache_add with whatever decode_jpeg_file returned; when
\* the cache gives no entry the lock is released and the call fails
OpenCacheAdd(t) ==
    /\ pc[t] = "add"
    /\ \E ok \in BOOLEAN :
         IF ok
         THEN /\ cache' = CacheAdd(cache, Entry(t, calls[t]),
                                   loc[t].decoded_img, loc[t].decoded_size)
              /\ loc' = [loc EXCEPT ![t].cache = Entry(t, calls[t])]
              /\ hist' = [hist EXCEPT ![t].add = "ok"]
              /\ pc' = [pc EXCEPT ![t] = "set_fields"]
              /\ UNCHANGED <<lock, res, dsc>>
         ELSE /\ lock' = NoOwner
              /\ res' = [res EXCEPT ![t] = "INVALID"]
              /\ hist' = [hist EXCEPT ![t].add = "fail"]
              /\ dsc' = [dsc EXCEPT ![t] = NewDsc(NoSrc)]
              /\ loc' = [loc EXCEPT ![t] = NoLoc]
              /\ pc' = [pc EXCEPT ![t] = "idle"]
              /\ UNCHANGED cache
    /\ UNCHANGED <<heap, calls, sz>>

\* lines 175-184, the fields given to the new entry in call n of thread t
\* for source s: the measured decode time as weight, the callback, and as
\* identity a copy of the path (FILE) or the caller's pointer itself
EntryFields(entry, s, t, n) ==
    IF s.type = "FILE"
    THEN [entry EXCEPT !.weight = Elapsed(t, n),
                       !.invalidate_cb = "cache_invalidate_cb",
                       !.src = SrcStr(t, n),
                       !.src_text = s.id,
                       !.src_type = "PATH"]
    ELSE [entry EXCEPT !.weight = Elapsed(t, n),
                       !.invalidate_cb = "cache_invalidate_cb",
                       !.src = CallerSrc(s, t, n),
                       !.src_text = s.id,
                       !.src_type = "POINTER"]

\* lines 175-184: weight, callback and identity; lv_strdup allocates the copy
SetFields(t) ==
    /\ pc[t] = "set_fields"
    /\ LET e == loc[t].cache IN
         /\ cache' = [cache EXCEPT
                        ![e] = EntryFields(@, dsc[t].src, t, calls[t])]
         /\ heap' = IF dsc[t].src.type = "FILE"
                    THEN Alloc(heap, SrcStr(t, calls[t])) ELSE heap
    /\ pc' = [pc EXCEPT ![t] = "get_data"]
    /\ UNCHANGED <<lock, calls, dsc, loc, res, hist, sz>>

\* lines 186-187
OpenGetData(t) ==
    /\ pc[t] = "get_data"
    /\ dsc' = [dsc EXCEPT ![t].img_data = cache[loc[t].cache].data,
                          ![t].cache_entry = loc[t].cache]
    /\ cache' = CacheGetData(cache, loc[t].cache)
    /\ pc' = [pc EXCEPT ![t] = "open_unlock"]
    /\ UNCHANGED <<lock, heap, calls, loc, res, hist, sz>>

\* lines 189-190
OpenReturn(t) ==
    /\ pc[t] = "open_unlock"
    /\ lock' = NoOwner
    /\ res' = [res EXCEPT ![t] = "OK"]
    /\ loc' = [loc EXCEPT ![t] = NoLoc]
    /\ pc' = [pc EXCEPT ![t] = "opened"]
    /\ UNCHANGED <<cache, heap, calls, dsc, hist, sz>>

(***************************************************************************)
(* decoder_close, lines 199-205: called once after a successful open       *)
(***************************************************************************)
\* lv_cache_lock(), line 202
CloseLock(t) ==
    /\ pc[t] = "opened"
    /\ lock = NoOwner
    /\ lock' = t
    /\ pc' = [pc EXCEPT ![t] = "close_release"]
    /\ UNCHANGED <<cache, heap, calls, dsc, loc, res, hist, sz>>

\* decoder_close without its lv_cache_release
CloseRelease_NoRelease(t) ==
    /\ pc[t] = "close_release"
    /\ pc' = [pc EXCEPT ![t] = "close_unlock"]
    /\ UNCHANGED <<lock, cache, heap, calls, dsc, loc, res, hist, sz>>

\* lv_cache_release(dsc->cache_entry), line 203
CloseRelease(t) ==
    /\ pc[t] = "close_release"
    /\ cache' = CacheRelease(cache, dsc[t].cache_entry)
    /\ pc' = [pc EXCEPT ![t] = "close_unlock"]
    /\ UNCHANGED <<lock, heap, calls, dsc, loc, res, hist, sz>>

\* lv_cache_unlock(), line 204; the host then drops the descriptor
CloseUnlock(t) ==
    /\ pc[t] = "close_unlock"
    /\ lock' = NoOwner
    /\ dsc' = [dsc EXCEPT ![t] = NewDsc(NoSrc)]
    /\ loc' = [loc EXCEPT ![t] = NoLoc]
    /\ res' = [res EXCEPT ![t] = "NONE"]
    /\ hist' = [hist EXCEPT ![t] = NoHist]
    /\ pc' = [pc EXCEPT ![t] = "idle"]
    /\ UNCHANGED <<cache, heap, calls, sz>>

(***************************************************************************)
(* The cache reclaims an entry nobody holds: under the lock it calls the   *)
(* entry's invalidate callback and drops the entry from the index.         *)
(***************************************************************************)
Evict(e) ==
    /\ lock = NoOwner
    /\ e \in DOMAIN cache
    /\ cache[e].refCount = 0
    /\ heap' = IF cache[e].invalidate_cb = "cache_invalidate_cb"
               THEN cache_invalidate_cb(heap, cache[e])
               ELSE Free(heap, cache[e].data)
    /\ cache' = CacheRemove(cache, e)
    /\ UNCHANGED <<pc, lock, calls, dsc, loc, res, hist, sz>>

Next ==
    \/ \E t \in Threads : \E s \in Sources : Open(t, s)
    \/ \E t \in Threads : TryCacheLock(t)
    \/ \E t \in Threads : TryCacheFind(t)
    \/ \E t \in Threads : TryCacheHitReturn(t)
    \/ \E t \in Threads : TryCacheMissReturn(t)
    \/ \E t \in Threads : OpenMiss(t)
    \/ \E t \in Threads : AllocFile(t)
    \/ \E t \in Threads : JpegCreate(t)
    \/ \E t \in Threads : JpegReadHeader(t)
    \/ \E t \in Threads : JpegStart(t)
    \/ \E t \in Threads : AllocOutput(t)
    \/ \E t \in Threads : ReadScanline(t)
    \/ \E t \in Threads : JpegFinishError(t)
    \/ \E t \in Threads : DecodeReturn(t)
    \/ \E t \in Threads : ErrorRecovery(t)
    \/ \E t \in Threads : AddLock(t)
    \/ \E t \in Threads : OpenCacheAdd(t)
    \/ \E t \in Threads : SetFields(t)
    \/ \E t \in Threads : OpenGetData(t)
    \/ \E t \in Threads : OpenReturn(t)
    \/ \E t \in Threads : CloseLock(t)
    \/ \E t \in Threads : CloseRelease(t)
    \/ \E t \in Threads : CloseUnlock(t)
    \/ \E e \in DOMAIN cache : Evict(e)

Spec == Init /\ [][Next]_vars


(***************************************************************************)
(* The size of the decoded buffer, for images of any size: one image is    *)
(* taken through decoder_info and then through decoder_open.               *)
(***************************************************************************)
Dims == {1, 2, 255, 256, 37837, 37838, 65500, 65535}

InitSize ==
    /\ InitThreads
    /\ sz \in {[SzOff EXCEPT !.pc = "start", !.w = w, !.h = h] :
                    w \in Dims, h \in Dims}

\* get_jpeg_size lines 461-462 and decoder_info lines 134-136
SizeInfo ==
    /\ sz.pc = "start"
    /\ sz' = [sz EXCEPT !.header = <<sz.w, sz.h>>, !.pc = "info"]
    /\ UNCHANGED <<pc, lock, cache, heap, calls, dsc, loc, res, hist>>

\* lines 382 and 391-401: cur_pos - output_buffer after k turns of the
\* scanline loop, each of which copies stride = output_width * 3 bytes at
\* cur_pos and advances cur_pos by stride
ScanlineOffset(w, k) == MulSmall(Mul16(w, k), JPEG_PIXEL_SIZE)

\* decode_jpeg_file lines 378-401, then decoder_open lines 164-169: the size
\* allocated and handed to lv_cache_add, and where the loop stopped writing
SizeOpen ==
    /\ sz.pc = "info"
    /\ sz' = [sz EXCEPT !.size = OutputBufferSize(sz.w, sz.h),
                        !.written = ScanlineOffset(sz.w, sz.h),
                        !.pc = "opened"]
    /\ UNCHANGED <<pc, lock, cache, heap, calls, dsc, loc, res, hist>>

NextSize == SizeInfo \/ SizeOpen

SpecSize == InitSize /\ [][NextSize]_vars

(***************************************************************************)
(* The signature check of decoder_info, lines 106-119, as a function of    *)
(* the first four bytes of the file.  lv_fs_read copies them into the      *)
(* memory of a uint32_t, so the value tested depends on the byte order of  *)
(* the build.  A 32-bit value is a pair of 16-bit halves <<high, low>>.    *)
(***************************************************************************)
ByteOrders == {"little", "big"}

\* byte values that make every comparison of the check go both ways
ByteVals == {0, 216, 224, 255}

\* 0xFFD8FF
JPEG_SIGNATURE == <<255, 55551>>

\* IS_JPEG_SIGNATURE(x) comparing all 32 bits of x
IS_JPEG_SIGNATURE_Unmasked(x) == x = JPEG_SIGNATURE

\* IS_JPEG_SIGNATURE(x): ((x) & 0x00FFFFFF) == JPEG_SIGNATURE
IS_JPEG_SIGNATURE(x) == <<x[1] % 256, x[2]>> = JPEG_SIGNATURE

\* the uint32_t whose memory holds the bytes b[1], b[2], b[3], b[4] in
\* ascending address order
LoadU32(order, b) ==
    IF order = "little"
    THEN <<b[4] * 256 + b[3], b[2] * 256 + b[1]>>
    ELSE <<b[1] * 256 + b[2], b[3] * 256 + b[4]>>

\* lines 106-108: jpg_signature starts as 0 and lv_fs_read overwrites its
\* first rn bytes with the first rn bytes of the file
ReadSignature(file, rn) == [i \in 1..4 |-> IF i <= rn THEN file[i] ELSE 0]

InitSig ==
    /\ InitThreads
    /\ sz \in {[SzOff EXCEPT !.pc = "sig", !.order = o, !.bytes = <<b1, b2, b3, b4>>] :
                    o \in ByteOrders, b1 \in ByteVals, b2 \in ByteVals,
                    b3 \in ByteVals, b4 \in ByteVals}

\* lines 106-119 for a file of four bytes or more
SigCheck ==
    /\ sz.pc = "sig"
    /\ sz' = [sz EXCEPT
                !.is_jpeg = IS_JPEG_SIGNATURE(LoadU32(sz.order, ReadSignature(sz.bytes, 4))),
                !.pc = "sig_done"]
    /\ UNCHANGED <<pc, lock, cache, heap, calls, dsc, loc, res, hist>>

NextSig == SigCheck

SpecSig == InitSig /\ [][NextSig]_vars

(***************************************************************************)
(* decoder_info, lines 90-142, with get_jpeg_size (lines 432-473) and      *)
(* alloc_file (lines 226-279).  An open file is an allocation: lv_fs_open  *)
(* makes it live, lv_fs_close frees it.  At a return loc[t] keeps the      *)
(* final state of cinfo and the header written.                            *)
(***************************************************************************)
\* first four bytes of the files read
SigSamples == {<<255, 216, 255, 224>>, <<0, 255, 216, 255>>, <<0, 0, 0, 0>>}

\* byte counts lv_fs_read can report for a request of sizeof(uint32_t)
ReadCounts == 0..4

InitInfo ==
    /\ InitThreads
    /\ sz \in {[SzOff EXCEPT !.order = o] : o \in ByteOrders}

\* decoder_info returns r, leaving cinfo in state c and header hd
InfoReturn(t, r, c, hd) ==
    /\ res' = [res EXCEPT ![t] = r]
    /\ loc' = [loc EXCEPT ![t] = [NoLoc EXCEPT !.cinfo = c, !.header = hd]]
    /\ dsc' = [dsc EXCEPT ![t] = NewDsc(NoSrc)]
    /\ pc' = [pc EXCEPT ![t] = "idle"]

\* the host calls decoder_info(decoder, src, header); lines 93-96 and 141
Info(t, s) ==
    /\ pc[t] = "idle"
    /\ TotalCalls < MaxOpens
    /\ calls' = [calls EXCEPT ![t] = @ + 1]
    /\ hist' = [hist EXCEPT ![t] = NoHist]
    /\ IF s.type = "FILE"
       THEN /\ dsc' = [dsc EXCEPT ![t] = NewDsc(s)]
            /\ loc' = [loc EXCEPT ![t] = NoLoc]
            /\ res' = [res EXCEPT ![t] = "NONE"]
            /\ pc' = [pc EXCEPT ![t] = "info_open"]
       ELSE InfoReturn(t, "INVALID", "none", <<0, 0>>)
    /\ UNCHANGED <<lock, cache, heap, sz>>

\* lv_fs_open, lines 99-104
InfoOpen(t) ==
    /\ pc[t] = "info_open"
    /\ \E ok \in BOOLEAN :
         IF ok
         THEN /\ heap' = Alloc(heap, File(t, calls[t]))
              /\ pc' = [pc EXCEPT ![t] = "info_read"]
              /\ UNCHANGED <<dsc, loc, res>>
         ELSE /\ InfoReturn(t, "INVALID", "none", <<0, 0>>)
              /\ UNCHANGED heap
    /\ UNCHANGED <<lock, cache, calls, hist, sz>>

\* lines 106-109: the signature read, then lv_fs_close
InfoRead(t) ==
    /\ pc[t] = "info_read"
    /\ \E file \in SigSamples : \E rn \in ReadCounts :
         loc' = [loc EXCEPT
                   ![t].rn = rn,
                   ![t].jpg_signature = LoadU32(sz.order, ReadSignature(file, rn))]
    /\ heap' = Free(heap, File(t, calls[t]))
    /\ pc' = [pc EXCEPT ![t] = "info_check"]
    /\ UNCHANGED <<lock, cache, calls, dsc, res, hist, sz>>

\* lines 111-124: the length and signature checks
InfoCheck(t) ==
    /\ pc[t] = "info_check"
    /\ IF loc[t].rn # 4 \/ ~IS_JPEG_SIGNATURE(loc[t].jpg_signature)
       THEN InfoReturn(t, "INVALID", "none", <<0, 0>>)
       ELSE /\ loc' = [loc EXCEPT ![t] = NoLoc]
            /\ pc' = [pc EXCEPT ![t] = "size_open"]
            /\ UNCHANGED <<dsc, res>>
    /\ UNCHANGED <<lock, cache, heap, calls, hist, sz>>

\* get_jpeg_size calls alloc_file (line 439): lv_fs_open, lines 234-240;
\* NULL makes get_jpeg_size return false (line 441), decoder_info INVALID
SizeAllocOpen(t) ==
    /\ pc[t] = "size_open"
    /\ \E ok \in BOOLEAN :
         IF ok
         THEN /\ heap' = Alloc(heap, LoadFile(t, calls[t]))
              /\ pc' = [pc EXCEPT ![t] = "size_load"]
              /\ UNCHANGED <<dsc, loc, res>>
         ELSE /\ InfoReturn(t, "INVALID", "none", <<0, 0>>)
              /\ UNCHANGED heap
    /\ UNCHANGED <<lock, cache, calls, hist, sz>>

\* alloc_file lines 242-278: seek/tell, lv_malloc, lv_fs_read, and the
\* lv_fs_close of the failed: label, which every outcome passes
SizeAllocLoad(t) ==
    /\ pc[t] = "size_load"
    /\ \E outcome \in {"seek_failed", "malloc_failed", "read_failed", "ok"} :
         LET data == DataBuf(t, calls[t])
             f == LoadFile(t, calls[t])
         IN  IF outcome = "ok"
             THEN /\ heap' = Free(Alloc(heap, data), f)
                  /\ loc' = [loc EXCEPT ![t].data = data]
                  /\ pc' = [pc EXCEPT ![t] = "size_create"]
                  /\ UNCHANGED <<dsc, res>>
             ELSE /\ heap' = IF outcome = "read_failed"
                             THEN Free(Free(Alloc(heap, data), data), f)
                             ELSE Free(heap, f)
                  /\ InfoReturn(t, "INVALID", "none", <<0, 0>>)
    /\ UNCHANGED <<lock, cache, calls, hist, sz>>

\* lines 444-454: setjmp, then jpeg_create_decompress
SizeCreate(t) ==
    /\ pc[t] = "size_create"
    /\ \E ok \in BOOLEAN :
         IF ok
         THEN /\ loc' = [loc EXCEPT ![t].cinfo = "created"]
              /\ pc' = [pc EXCEPT ![t] = "size_header"]
              /\ UNCHANGED hist
         ELSE /\ hist' = [hist EXCEPT ![t].jump = "create"]
              /\ pc' = [pc EXCEPT ![t] = "size_jump"]
              /\ UNCHANGED loc
    /\ UNCHANGED <<lock, cache, heap, calls, dsc, res, sz>>

\* the recovery branch of get_jpeg_size without its lv_free(data)
SizeJump_NoFree(t) ==
    /\ pc[t] = "size_jump"
    /\ InfoReturn(t, "INVALID", DestroyDecompress(loc[t].cinfo), <<0, 0>>)
    /\ UNCHANGED <<lock, cache, heap, calls, hist, sz>>

\* lines 447-452, the recovery branch: destroy, free, return false
SizeJump(t) ==
    /\ pc[t] = "size_jump"
    /\ heap' = Free(heap, loc[t].data)
    /\ InfoReturn(t, "INVALID", DestroyDecompress(loc[t].cinfo), <<0, 0>>)
    /\ UNCHANGED <<lock, cache, calls, hist, sz>>

\* lines 456-472: jpeg_mem_src and jpeg_read_header; unless the engine
\* jumps, the normal exit destroys cinfo and frees data, and decoder_info
\* (lines 129-138) fills the header when the result was JPEG_HEADER_OK
SizeReadHeader(t) ==
    /\ pc[t] = "size_header"
    /\ \E ret \in {"error_exit", "JPEG_HEADER_OK", "other"} :
         IF ret = "error_exit"
         THEN /\ hist' = [hist EXCEPT ![t].jump = "header"]
              /\ pc' = [pc EXCEPT ![t] = "size_jump"]
              /\ UNCHANGED <<heap, dsc, loc, res>>
         ELSE /\ heap' = Free(heap, loc[t].data)
              /\ IF ret = "JPEG_HEADER_OK"
                 THEN InfoReturn(t, "OK", DestroyDecompress(loc[t].cinfo),
                                 <<ImageWidth(dsc[t].src.id),
                                   ImageHeight(dsc[t].src.id)>>)
                 ELSE InfoReturn(t, "INVALID", DestroyDecompress(loc[t].cinfo),
                                 <<0, 0>>)
              /\ UNCHANGED hist
    /\ UNCHANGED <<lock, cache, calls, sz>>

NextInfo ==
    \/ \E t \in Threads : \E s \in Sources : Info(t, s)
    \/ \E t \in Threads : InfoOpen(t)
    \/ \E t \in Threads : InfoRead(t)
    \/ \E t \in Threads : InfoCheck(t)
    \/ \E t \in Threads : SizeAllocOpen(t)
    \/ \E t \in Threads : SizeAllocLoad(t)
    \/ \E t \in Threads : SizeCreate(t)
    \/ \E t \in Threads : SizeReadHeader(t)
    \/ \E t \in Threads : SizeJump(t)

SpecInfo == InitInfo /\ [][NextInfo]_vars

(***************************************************************************)
(* Properties                                                              *)
(***************************************************************************)
\* decoder_open of thread t has returned
Returned(t) == pc[t] \in {"idle", "opened"} /\ res[t] # "NONE"

\* C1: whenever decode_jpeg_file gave no buffer, decoder_open returns failure
\* and has added no entry to the cache.
OpenFailsWhenDecodeFails ==
    \A t \in Threads :
        (Returned(t) /\ hist[t].decode = "fail")
            => (res[t] = "INVALID" /\ hist[t].add # "ok")

\* C2: when decoder_open is called for a path for which an earlier open has
\* completed, and that open's entry is still in the cache at the lookup, the
\* lookup hits (so the call returns at line 157, before any file load or
\* decode) and yields the data pointer the earlier open returned.
SecondOpenHitsCache ==
    \A t \in Threads :
        (pc[t] \in {"try_hit_unlock", "try_miss_unlock"} /\ hist[t].prior # {})
            => /\ pc[t] = "try_hit_unlock"
               /\ \A e \in hist[t].prior : dsc[t].img_data = cache[e].data

\* the threads that took an entry's data and have not released it yet
Holders(e) ==
    {t \in Threads :
        /\ pc[t] \in {"try_hit_unlock", "open_unlock", "opened", "close_release"}
        /\ dsc[t].cache_entry = e}

\* C3: an entry's refCount is never negative and always equals the number of
\* opens of it that have not been closed yet (so a close returns it to its
\* value before the matching open, and it is zero once every open is
\* closed); an entry that is held is still in the cache.
RefCountMatchesHolders ==
    /\ \A e \in DOMAIN cache :
          /\ cache[e].refCount >= 0
          /\ cache[e].refCount = Cardinality(Holders(e))
    /\ \A t \in Threads :
          pc[t] \in {"opened", "close_release"} => dsc[t].cache_entry \in DOMAIN cache

\* C3 witness: a thread holds, through a cache hit, an entry whose inserting
\* thread has already closed it.
RefCountWitness ==
    \E t \in Threads : \E e \in DOMAIN cache :
        /\ pc[t] = "opened" /\ hist[t].decode = "none" /\ dsc[t].cache_entry = e
        /\ e[2] # t /\ pc[e[2]] = "idle"
        /\ cache[e].refCount = 1

\* C4: the cache never holds two entries with the same file path.
OneEntryPerSource ==
    \A e1 \in DOMAIN cache : \A e2 \in DOMAIN cache :
        (e1 # e2 /\ cache[e1].src_type = "PATH" /\ cache[e2].src_type = "PATH")
            => cache[e1].src_text # cache[e2].src_text

\* C5: every entry a lookup can return (its insert section has completed and
\* it carries a path) has a non-null data buffer.
LookupDataNonNull ==
    \A e \in Published : cache[e].src_type = "PATH" => cache[e].data # NULL

\* C6: when lv_cache_add gives no entry after a successful decode, the open
\* fails and the decoded buffer has been freed when it returns.
InsertFailureFreesBuffer ==
    \A t \in Threads :
        (Returned(t) /\ hist[t].add = "fail" /\ hist[t].decode = "ok")
            => (res[t] = "INVALID" /\ OutBuf(t, calls[t]) \notin DOMAIN heap)

\* C7: when decode_jpeg_file returns through its recovery branch, the file
\* buffer and the output buffer have been freed exactly once and the engine
\* state, which had been created, has been destroyed exactly once.
RecoveryReleasesOnce ==
    \A t \in Threads :
        (pc[t] = "add_lock" /\ hist[t].jump # "none")
            => /\ loc[t].cinfo = "destroyed"
               /\ DataBuf(t, calls[t]) \notin DOMAIN heap
               /\ OutBuf(t, calls[t]) \notin DOMAIN heap

\* C8: the size recorded for the decoded data is the exact product
\* width * height * 3 of the dimensions decoder_info reported.
SizeIsExactProduct ==
    sz.pc = "opened" => sz.size = ExactProduct(sz.header[1], sz.header[2])

\* the load/decode step of decoder_open (lines 160-165)
DecodePcs ==
    {"open_miss", "alloc_file", "create", "read_header", "start", "alloc_out",
     "scan", "finish", "jump"}

\* C9: a thread that is loading a file or decoding never owns the cache lock.
DecodeRunsUnlocked ==
    \A t \in Threads : pc[t] \in DecodePcs => lock # t

\* C9 witness: two opens on distinct files are both inside the scanline loop.
DecodeOverlapWitness ==
    \E t1 \in Threads : \E t2 \in Threads :
        /\ pc[t1] = "scan" /\ pc[t2] = "scan"
        /\ dsc[t1].src.id # dsc[t2].src.id

\* C10: a lookup made under the lock returns the very entry of every insert
\* of that path that has completed and has not been evicted.
FindReturnsCompletedEntry ==
    \A t \in Threads :
        pc[t] \in {"try_hit_unlock", "try_miss_unlock"}
            => \A e \in hist[t].visible : dsc[t].cache_entry = e


(***************************************************************************)
(* Reclamation of entries of either identity kind.  The initial states are *)
(* caches as completed, closed opens leave them: each thread may have left *)
(* one entry, built as lines 168-187 build it for a file source or for an  *)
(* in-memory source (the else branch of line 181), around a decoded buffer *)
(* or around the NULL of a failed decode.  The caller's own source object  *)
(* is live throughout.                                                     *)
(***************************************************************************)
\* the entry call n of thread t leaves for source s and decode result img
LeftEntry(s, img, t, n) ==
    EntryFields(CacheAdd(<< >>, Entry(t, n), img, ZeroSize)[Entry(t, n)], s, t, n)

\* the allocations that call leaves live
LeftHeap(s, img, t, n) ==
    {CallerSrc(s, t, n)}
        \cup (IF s.type = "FILE" THEN {SrcStr(t, n)} ELSE {})
        \cup (IF img = NULL THEN {} ELSE {img})

InitEvict ==
    /\ pc = [t \in Threads |-> "idle"]
    /\ lock = NoOwner
    /\ dsc = [t \in Threads |-> NewDsc(NoSrc)]
    /\ loc = [t \in Threads |-> NoLoc]
    /\ res = [t \in Threads |-> "NONE"]
    /\ hist = [t \in Threads |-> NoHist]
    /\ sz = SzOff
    /\ \E owners \in SUBSET Threads \ {{}} :
       \E n \in [owners -> 1..MaxOpens] :
       \E s \in [owners -> Sources] :
       \E decoded \in [owners -> BOOLEAN] :
         LET img(t) == IF decoded[t] THEN OutBuf(t, n[t]) ELSE NULL
             live == UNION {LeftHeap(s[t], img(t), t, n[t]) : t \in owners}
         IN  /\ calls = [t \in Threads |-> IF t \in owners THEN n[t] ELSE 0]
             /\ cache = [e \in {Entry(t, n[t]) : t \in owners} |->
                           LeftEntry(s[e[2]], img(e[2]), e[2], e[3])]
             /\ heap = [p \in live |-> "live"]

NextEvict == \E e \in DOMAIN cache : Evict(e)

SpecEvict == InitEvict /\ [][NextEvict]_vars

\* the caller's source object of the last call of thread t, whatever its kind
CallerLive(t) ==
    \E k \in {"path", "image"} :
        <<k, t, calls[t]>> \in DOMAIN heap /\ heap[<<k, t, calls[t]>>] = "live"

\* C11: nothing is ever freed twice.  Once an entry is evicted its data
\* buffer and the cache's own copy of the path are freed; until then they
\* stay allocated; and the caller's own source (the path string of a FILE
\* source, the pointer of an in-memory source) is never freed.
InvalidateFreesOwned ==
    /\ \A p \in DOMAIN heap : heap[p] = "live"
    /\ \A t \in Threads :
          calls[t] > 0 =>
            /\ CallerLive(t)
            /\ IF Entry(t, calls[t]) \in DOMAIN cache
               THEN LET e == cache[Entry(t, calls[t])] IN
                    /\ e.data # NULL => e.data \in DOMAIN heap
                    /\ e.src_type = "PATH" => e.src \in DOMAIN heap
               ELSE /\ OutBuf(t, calls[t]) \notin DOMAIN heap
                    /\ SrcStr(t, calls[t]) \notin DOMAIN heap

\* C11 witness: an entry with a path identity and an entry with a pointer
\* identity have both been evicted; only the callers' own objects remain.
InvalidateWitness ==
    /\ cache = << >>
    /\ \E t1 \in Threads : \E t2 \in Threads :
          /\ <<"path", t1, calls[t1]>> \in DOMAIN heap
          /\ <<"image", t2, calls[t2]>> \in DOMAIN heap
          /\ Cardinality(DOMAIN heap) = 2


\* C13: the signature check accepts a file that starts with FF D8 FF E0 and
\* rejects a file that starts with 00 00 00 00.
SignatureAcceptsJpeg ==
    sz.pc = "sig_done" =>
        /\ sz.bytes = <<255, 216, 255, 224>> => sz.is_jpeg
        /\ sz.bytes = <<0, 0, 0, 0>> => ~sz.is_jpeg

\* C14 as stated: the check is true exactly when the low 24 bits of the
\* big-endian value b0<<24 | b1<<16 | b2<<8 | b3, that is the bytes b1 b2 b3,
\* are FF D8 FF.
SignatureIsBigEndianLow24 ==
    sz.pc = "sig_done" =>
        (sz.is_jpeg <=>
            (sz.bytes[2] = 255 /\ sz.bytes[3] = 216 /\ sz.bytes[4] = 255))

\* C14 amended: the check is true exactly when the low 24 bits of the value
\* in the byte order of the build are 0xFFD8FF: on a little-endian build when
\* the file starts with FF D8 FF, whatever its fourth byte; on a big-endian
\* build when its second to fourth bytes are FF D8 FF.
SignatureIsHostOrderLow24 ==
    sz.pc = "sig_done" =>
        (sz.is_jpeg <=>
            IF sz.order = "little"
            THEN sz.bytes[1] = 255 /\ sz.bytes[2] = 216 /\ sz.bytes[3] = 255
            ELSE sz.bytes[2] = 255 /\ sz.bytes[3] = 216 /\ sz.bytes[4] = 255)

\* C14 witness: a little-endian build has accepted FF D8 FF E0.
SignatureWitness ==
    /\ sz.pc = "sig_done"
    /\ sz.order = "little"
    /\ sz.bytes = <<255, 216, 255, 224>>
    /\ sz.is_jpeg


\* C12: no file is closed twice and no buffer freed twice; the file opened
\* for the signature read is closed before the checks; and whenever
\* decoder_info has returned, by any path, none of the files it opened is
\* still open, none of the byte buffers it loaded is still allocated, and
\* an engine state that was created has been destroyed exactly once.
InfoReleasesAll ==
    /\ \A p \in DOMAIN heap : heap[p] = "live"
    /\ \A t \in Threads :
          /\ pc[t] = "info_check" => File(t, calls[t]) \notin DOMAIN heap
          /\ pc[t] = "idle" =>
                /\ \A n \in 1..calls[t] :
                      /\ File(t, n) \notin DOMAIN heap
                      /\ LoadFile(t, n) \notin DOMAIN heap
                      /\ DataBuf(t, n) \notin DOMAIN heap
                /\ loc[t].cinfo \notin {"created", "destroyed_twice"}

\* C12 witness: a call whose header parse raised an error has returned
\* failure with the engine state destroyed, while another call has returned
\* success.
InfoWitness ==
    \E t1 \in Threads : \E t2 \in Threads :
        /\ pc[t1] = "idle" /\ hist[t1].jump = "header"
        /\ res[t1] = "INVALID" /\ loc[t1].cinfo = "destroyed"
        /\ pc[t2] = "idle" /\ res[t2] = "OK" /\ loc[t2].cinfo = "destroyed"


\* the insert step of decoder_open: about to take the lock of line 167, or
\* holding it just before lv_cache_add
InsertPcs == {"add_lock", "add"}

\* C15: nothing makes a thread that missed wait for, or reuse, the decode of
\* another thread: whenever two threads are at the insert step for the same
\* path, each got there through its own decode_jpeg_file call after its own
\* miss, and two successful decodes hold two different live buffers.
BothAtInsertDecoded ==
    \A t1 \in Threads : \A t2 \in Threads \ {t1} :
        (/\ pc[t1] \in InsertPcs /\ pc[t2] \in InsertPcs
         /\ dsc[t1].src = dsc[t2].src)
            => /\ dsc[t1].src.type = "FILE"
               /\ hist[t1].decode # "none" /\ hist[t2].decode # "none"
               /\ dsc[t1].cache_entry = NULL /\ dsc[t2].cache_entry = NULL
               /\ (loc[t1].decoded_img # NULL /\ loc[t2].decoded_img # NULL)
                     => /\ loc[t1].decoded_img # loc[t2].decoded_img
                        /\ loc[t1].decoded_img \in DOMAIN heap
                        /\ loc[t2].decoded_img \in DOMAIN heap

\* C15 witness: two threads opened the same path, both missed, both decoded
\* it in full, and both are at the insert step while the path is still not
\* in the cache.
DuplicateDecodeWitness ==
    \E t1 \in Threads : \E t2 \in Threads \ {t1} :
        /\ pc[t1] = "add" /\ pc[t2] = "add_lock"
        /\ dsc[t1].src.type = "FILE" /\ dsc[t1].src = dsc[t2].src
        /\ hist[t1].decode = "ok" /\ hist[t2].decode = "ok"
        /\ CacheFindBySrc(cache, dsc[t1].src.id) = {}


\* a <= b for sizes as <<hi, lo>> pairs (hi may be unreduced)
SizeLeq(a, b) == a[1] < b[1] \/ (a[1] = b[1] /\ a[2] <= b[2])

\* C16: for every width and height the scanline loop, which copies scanline
\* k at byte offset k * width * 3, ends inside the allocated buffer: the
\* bytes written in all never exceed the size that was allocated.
ScanlinesInsideBuffer ==
    sz.pc = "opened" => SizeLeq(sz.written, sz.size)


\* thread t returns from decode_jpeg_file in this step
DecodeReturns(t) == pc[t] \in DecodePcs /\ pc'[t] = "add_lock"

\* C17: decode_jpeg_file returns a buffer only from its normal exit, after
\* the loop has copied every scanline of the image into that buffer; when
\* the engine raised an error, also after the output buffer had been
\* allocated, or when the output buffer could not be allocated, it returns
\* NULL.
ReturnsOnlyWholeImage ==
    [][\A t \in Threads :
          DecodeReturns(t) =>
            /\ loc'[t].decoded_img # NULL =>
                  /\ pc[t] = "finish"
                  /\ loc[t].output_scanline = ImageHeight(dsc[t].src.id)
                  /\ loc'[t].decoded_img = loc[t].output_buffer
                  /\ loc'[t].decoded_img \in DOMAIN heap'
            /\ (pc[t] = "jump" \/ loc[t].output_buffer = NULL) =>
                  loc'[t].decoded_img = NULL]_vars

\* C17 witness: one call has returned a whole decoded image, another has
\* returned NULL after an error in the scanline loop, that is after its
\* output buffer had been allocated.
WholeImageWitness ==
    \E t1 \in Threads : \E t2 \in Threads :
        /\ pc[t1] = "add_lock" /\ loc[t1].decoded_img # NULL
        /\ pc[t2] = "add_lock" /\ hist[t2].jump = "scanline"
        /\ loc[t2].decoded_img = NULL


\* entry e has its callback and its identity (lines 176-184)
Complete(e) ==
    /\ cache[e].invalidate_cb = "cache_invalidate_cb"
    /\ cache[e].weight # NoWeight
    /\ cache[e].src_type # "NONE"
    /\ cache[e].src # NULL

\* the positions at which decoder_open, try_cache and decoder_close read or
\* write the cache or the fields of an entry
CacheAccessPcs == {"try_find", "add", "set_fields", "get_data", "close_release"}

\* C18: a thread reads or writes the cache and entry fields only while it
\* holds the lock, and holds it from lv_cache_add to the unlock of line 189;
\* an entry whose weight, callback or identity is not yet set, or whose data
\* reference is not yet taken, belongs to the thread that holds the lock, so
\* no lookup of another thread and no eviction can see it.
PublicationUnderLock ==
    /\ \A t \in Threads :
          /\ pc[t] \in CacheAccessPcs \cup {"open_unlock"} => lock = t
          /\ pc[t] = "try_find" => \A e \in DOMAIN cache : Complete(e)
    /\ \A e \in DOMAIN cache :
          (~Complete(e) \/ e \notin Published) =>
              \E t \in Threads : lock = t /\ e \in Publishing(t)
    /\ lock = NoOwner => \A e \in DOMAIN cache : Complete(e) /\ e \in Published

\* C18 witness: a thread has added its entry and not yet set its fields,
\* while another thread waits for the lock to look up the same path.
PublicationWitness ==
    \E t1 \in Threads : \E t2 \in Threads \ {t1} :
        /\ pc[t1] = "set_fields" /\ ~Complete(loc[t1].cache)
        /\ pc[t2] = "try_lock" /\ dsc[t2].src = dsc[t1].src


\* the positions between an lv_cache_lock() and the lv_cache_unlock() that
\* follows it
HoldingPcs ==
    {"try_find", "try_hit_unlock", "try_miss_unlock", "add", "set_fields",
     "get_data", "open_unlock", "close_release", "close_unlock"}

\* the positions at which a thread is about to call lv_cache_lock()
LockingPcs == {"try_lock", "add_lock", "opened"}

\* C19: a thread owns the lock exactly between a lock call and the unlock
\* that follows it: it never calls lv_cache_lock() while it owns the lock,
\* never unlocks a lock it does not own, and owns nothing once decoder_open
\* (hit, insert, failed insert, unsupported source) or decoder_close has
\* returned; and the threads are never all waiting for a lock that is taken.
LockBalanced ==
    /\ \A t \in Threads : lock = t <=> pc[t] \in HoldingPcs
    /\ lock \in Threads \cup {NoOwner}
    /\ (\A t \in Threads : pc[t] \in LockingPcs) => lock = NoOwner

\* C19 witness: one thread has returned from decoder_open through the failed
\* insert, owning nothing, while the other, after a successful open, owns the
\* lock inside decoder_close.
LockBalanceWitness ==
    \E t1 \in Threads : \E t2 \in Threads \ {t1} :
        /\ pc[t1] = "idle" /\ hist[t1].add = "fail" /\ res[t1] = "INVALID"
        /\ pc[t2] = "close_release" /\ lock = t2

\* thread t is in, or has just started, a decoder_open on a source that is
\* no file
NonFileOpen(t) == dsc[t].src.type = "VARIABLE"

====
